---- MODULE Spec2Model ----
(***************************************************************************)
(* A model of telegrambot/tools/generate_key.py: generate_encryption_key   *)
(* draws random bytes, base64-encodes them, prints the key and, when the   *)
(* .env file exists and holds the placeholder, rewrites that file.         *)
(*                                                                         *)
(* Text is a sequence of one-character strings.  The file system is a      *)
(* function from the paths that exist to their raw content.                *)
(***************************************************************************)
EXTENDS Integers, Sequences, FiniteSets, TLC

VARIABLES
    fs,           \* the file system: a function from existing paths to raw content
    linesep,      \* os.linesep of the platform the script runs on
    pc,           \* pc[i]: where invocation i stands in generate_encryption_key
    key_bytes,    \* key_bytes[i]: the bytes drawn by secrets.token_bytes
    key_b64,      \* key_b64[i]: their base64 text
    env_content,  \* env_content[i]: the local variable env_content
    ret,          \* ret[i]: the value returned (<<>> while nothing is returned)
    trace,        \* trace[i]: what invocation i has printed and done to .env, in order
    fs0           \* fs0[i]: the file system as it was when invocation i was called

vars == <<fs, linesep, pc, key_bytes, key_b64, env_content, ret, trace, fs0>>

----------------------------------------------------------------------------
(* Bounds of the model *)

\* the longest key, in bytes, whose every byte is drawn independently
MaxLen == 3
\* the most parts a .env file of the initial states is built from
MaxParts == 2
\* the number of invocations of the script in one behaviour
MaxCalls == 2

(* Program constants *)

\* def generate_encryption_key(length=32)
DefaultLength == 32

----------------------------------------------------------------------------
(* Text *)

LF == "\n"
CR == "\r"
\* what a hole left by a write past the end of a file reads as
NUL == "\\0"

\* 'ENCRYPTION_KEY=replace_with_generated_key'
Placeholder ==
    <<"E","N","C","R","Y","P","T","I","O","N","_","K","E","Y","=",
      "r","e","p","l","a","c","e","_","w","i","t","h","_",
      "g","e","n","e","r","a","t","e","d","_","k","e","y">>

\* 'ENCRYPTION_KEY=', the fixed part of f'ENCRYPTION_KEY={key_b64}'
KeyPrefix == <<"E","N","C","R","Y","P","T","I","O","N","_","K","E","Y","=">>

\* f'ENCRYPTION_KEY={key_b64}'
KeyLine(k) == KeyPrefix \o k

\* the '.env' beside the package directory
EnvPath == ".env"


Prefix(s, n) == SubSeq(s, 1, n)
Drop(s, n) == SubSeq(s, n + 1, Len(s))

\* sub occurs in s at index i (1-based)
OccursAt(s, sub, i) ==
    /\ i >= 1
    /\ i + Len(sub) - 1 <= Len(s)
    /\ SubSeq(s, i, i + Len(sub) - 1) = sub

\* Python's  sub in s
Contains(s, sub) == \E i \in 1..(Len(s) - Len(sub) + 1) : OccursAt(s, sub, i)

\* the index of the first occurrence of sub in s at or after i, 0 when none
\* (Python's  s.find(sub, i - 1) + 1)
Find(s, sub, i) ==
    LET at == { j \in i..(Len(s) - Len(sub) + 1) : OccursAt(s, sub, j) }
    IN  IF at = {} THEN 0 ELSE CHOOSE j \in at : \A k \in at : j <= k

\* Python's  s.replace(old, new)  for a non-empty old: one scan from the left,
\* each occurrence found is replaced and the scan resumes after it
RECURSIVE ReplaceFrom(_, _, _, _)
ReplaceFrom(s, old, new, i) ==
    LET j == Find(s, old, i)
    IN  IF j = 0 THEN SubSeq(s, i, Len(s))
        ELSE SubSeq(s, i, j - 1) \o new \o ReplaceFrom(s, old, new, j + Len(old))

\* a replace that stops after the first occurrence (s.replace(old, new, 1))
ReplaceFirst(s, old, new) ==
    LET j == Find(s, old, 1)
    IN  IF j = 0 THEN s
        ELSE SubSeq(s, 1, j - 1) \o new \o SubSeq(s, j + Len(old), Len(s))

Replace(s, old, new) == ReplaceFrom(s, old, new, 1)

\* file.read() of a file opened with open(path, 'r'): universal newlines,
\* '\r\n' and a lone '\r' are read as '\n'
ReadText(raw) ==
    LET Kept(j) == ~(raw[j] = LF /\ j > 1 /\ raw[j - 1] = CR)
        Read(j) == IF raw[j] = CR THEN LF ELSE raw[j]
        kept == SelectSeq([j \in 1..Len(raw) |-> j], Kept)
    IN  [k \in 1..Len(kept) |-> Read(kept[k])]

\* file.write(s) of a file opened with open(path, 'w'): '\n' is written as
\* os.linesep, every other character as it is
WriteText(s, sep) ==
    LET w == Len(sep)
        Slot(m) ==
            LET j == ((m - 1) \div w) + 1
                r == ((m - 1) % w) + 1
            IN  IF s[j] = LF THEN sep[r] ELSE IF r = 1 THEN s[j] ELSE ""
        Filled(c) == c /= ""
    IN  SelectSeq([m \in 1..(Len(s) * w) |-> Slot(m)], Filled)

\* a write(2) of data at offset off (0-based) of a file holding content
WriteAt(content, off, data) ==
    Prefix(content \o [j \in 1..(off - Len(content)) |-> NUL], off)
        \o data
        \o Drop(content, off + Len(data))

----------------------------------------------------------------------------
(* Base64 (RFC 4648, padded) *)

Alphabet ==
    <<"A","B","C","D","E","F","G","H","I","J","K","L","M","N","O","P",
      "Q","R","S","T","U","V","W","X","Y","Z","a","b","c","d","e","f",
      "g","h","i","j","k","l","m","n","o","p","q","r","s","t","u","v",
      "w","x","y","z","0","1","2","3","4","5","6","7","8","9","+","/">>

Pad == "="

Sextet(n) == Alphabet[n + 1]

\* an encoder that pads every group as if it were the last, short one
EncodeGroupNoThird(b1, b2, b3, n) ==
    LET v == b1 * 65536 + b2 * 256 + b3
    IN  << Sextet(v \div 262144),
           Sextet((v \div 4096) % 64),
           IF n >= 2 THEN Sextet((v \div 64) % 64) ELSE Pad,
           Pad >>

\* the four characters of one group of n = 1..3 bytes (absent bytes are 0)
EncodeGroup(b1, b2, b3, n) ==
    LET v == b1 * 65536 + b2 * 256 + b3
    IN  << Sextet(v \div 262144),
           Sextet((v \div 4096) % 64),
           IF n >= 2 THEN Sextet((v \div 64) % 64) ELSE Pad,
           IF n >= 3 THEN Sextet(v % 64) ELSE Pad >>

\* base64.b64encode(bs).decode('utf-8')
RECURSIVE B64Encode(_)
B64Encode(bs) ==
    IF Len(bs) = 0 THEN <<>>
    ELSE IF Len(bs) = 1 THEN EncodeGroup(bs[1], 0, 0, 1)
    ELSE IF Len(bs) = 2 THEN EncodeGroup(bs[1], bs[2], 0, 2)
    ELSE EncodeGroup(bs[1], bs[2], bs[3], 3) \o B64Encode(Drop(bs, 3))

----------------------------------------------------------------------------
(* Inputs *)

\* the invocations of one behaviour
Invs == 1..MaxCalls

\* the two invocations that run side by side
Procs == {1, 2}

\* the values a random byte takes in the model
NarrowPool == {0, 4}
WidePool == {0, 4, 101, 173, 234, 255}

\* the lengths a key is asked with: the short ones and the default
Lengths == (1..MaxLen) \cup {DefaultLength}

\* the byte strings secrets.token_bytes(L) draws from: every string over the
\* pool up to MaxLen bytes, the strings of one repeated byte beyond
TokenBytes(pool, L) ==
    IF L <= MaxLen THEN [1..L -> pool]
    ELSE { [j \in 1..L |-> b] : b \in pool }

\* what the initial .env files are built from
Parts == { Placeholder, Drop(Placeholder, 1), <<LF>>, <<CR, LF>>, <<"#">> }

\* the parts of ps joined
RECURSIVE Concat(_)
Concat(ps) == IF ps = <<>> THEN <<>> ELSE Head(ps) \o Concat(Tail(ps))

EnvFiles == { Concat(ps) : ps \in UNION { [1..n -> Parts] : n \in 0..MaxParts } }

\* a file system without .env, and one holding it
NoFiles == [p \in {} |-> <<>>]
OneFile(c) == [p \in {EnvPath} |-> c]

LineSeps == { <<LF>>, <<CR, LF>> }

----------------------------------------------------------------------------
(* The events of a trace, and the file *)

Ev(tag, what) == <<tag, what>>

Exists == EnvPath \in DOMAIN fs

----------------------------------------------------------------------------
(* The initial states *)

IdleState ==
    /\ pc = [i \in Invs |-> "idle"]
    /\ key_bytes = [i \in Invs |-> <<>>]
    /\ key_b64 = [i \in Invs |-> <<>>]
    /\ env_content = [i \in Invs |-> <<>>]
    /\ ret = [i \in Invs |-> <<>>]
    /\ trace = [i \in Invs |-> <<>>]
    /\ fs0 = [i \in Invs |-> NoFiles]

Init ==
    /\ fs \in {NoFiles} \cup { OneFile(c) : c \in EnvFiles }
    /\ linesep \in LineSeps
    /\ IdleState

----------------------------------------------------------------------------
(* generate_encryption_key, statement by statement *)

Goto(i, where) == pc' = [pc EXCEPT ![i] = where]
Log(i, e) == trace' = [trace EXCEPT ![i] = Append(@, e)]

\* lines 12-15: key_bytes = secrets.token_bytes(length); key_b64 = b64encode(...)
Call(i, L, bs) ==
    /\ pc[i] = "idle"
    /\ Len(bs) = L
    /\ key_bytes' = [key_bytes EXCEPT ![i] = bs]
    /\ key_b64' = [key_b64 EXCEPT ![i] = B64Encode(bs)]
    /\ fs0' = [fs0 EXCEPT ![i] = fs]
    /\ Goto(i, "print_key")
    /\ UNCHANGED <<fs, linesep, env_content, ret, trace>>

\* line 17: print(f"Generated encryption key: {key_b64}")
PrintKey(i) ==
    /\ pc[i] = "print_key"
    /\ Log(i, Ev("print_key", key_b64[i]))
    /\ Goto(i, "print_advice")
    /\ UNCHANGED <<fs, linesep, key_bytes, key_b64, env_content, ret, fs0>>

\* line 18: print("Store this key securely ...")
PrintAdvice(i) ==
    /\ pc[i] = "print_advice"
    /\ Log(i, Ev("print_advice", <<>>))
    /\ Goto(i, "exists")
    /\ UNCHANGED <<fs, linesep, key_bytes, key_b64, env_content, ret, fs0>>

\* the file opened without asking whether it exists
PathExistsSkipped(i) ==
    /\ pc[i] = "exists"
    /\ Log(i, Ev("exists", <<>>))
    /\ Goto(i, "read")
    /\ UNCHANGED <<fs, linesep, key_bytes, key_b64, env_content, ret, fs0>>

\* line 23: if os.path.exists(env_path)
PathExists(i) ==
    /\ pc[i] = "exists"
    /\ Log(i, Ev("exists", <<>>))
    /\ Goto(i, IF Exists THEN "read" ELSE "return")
    /\ UNCHANGED <<fs, linesep, key_bytes, key_b64, env_content, ret, fs0>>

\* a read that waits while another invocation is between its read and its write
ReadEnvLocked(i) ==
    /\ pc[i] = "read"
    /\ Exists
    /\ \A j \in DOMAIN pc \ {i} : pc[j] \notin {"check", "open_w", "write"}
    /\ env_content' = [env_content EXCEPT ![i] = ReadText(fs[EnvPath])]
    /\ Log(i, Ev("read", fs[EnvPath]))
    /\ Goto(i, "check")
    /\ UNCHANGED <<fs, linesep, key_bytes, key_b64, ret, fs0>>

\* lines 24-25: with open(env_path, 'r') as file: env_content = file.read()
ReadEnv(i) ==
    /\ pc[i] = "read"
    /\ Exists
    /\ env_content' = [env_content EXCEPT ![i] = ReadText(fs[EnvPath])]
    /\ Log(i, Ev("read", fs[EnvPath]))
    /\ Goto(i, "check")
    /\ UNCHANGED <<fs, linesep, key_bytes, key_b64, ret, fs0>>

\* a read whose error is caught and passed over
ReadFailsSwallowed(i) ==
    /\ pc[i] = "read"
    /\ Log(i, Ev("error", <<"read">>))
    /\ Goto(i, "return")
    /\ UNCHANGED <<fs, linesep, key_bytes, key_b64, env_content, ret, fs0>>

\* lines 24-25 raising (PermissionError, OSError): nothing catches it
ReadFails(i) ==
    /\ pc[i] = "read"
    /\ Log(i, Ev("error", <<"read">>))
    /\ Goto(i, "raised")
    /\ UNCHANGED <<fs, linesep, key_bytes, key_b64, env_content, ret, fs0>>

\* a test that never fails: the file is rewritten whatever it holds
HasPlaceholderAlways(text) == TRUE

\* a test for the placeholder less its first letter
HasPlaceholderLoose(text) == Contains(text, Drop(Placeholder, 1))

\* line 27: 'ENCRYPTION_KEY=replace_with_generated_key' in env_content
HasPlaceholder(text) == Contains(text, Placeholder)

\* line 28: env_content.replace(placeholder, f'ENCRYPTION_KEY={key_b64}')
Patched(text, k) == Replace(text, Placeholder, KeyLine(k))

\* the confirmation printed whenever .env exists, patched or not
CheckPlaceholderConfirms(i) ==
    /\ pc[i] = "check"
    /\ IF HasPlaceholder(env_content[i])
       THEN /\ env_content' = [env_content EXCEPT ![i] = Patched(@, key_b64[i])]
            /\ Goto(i, "open_w")
       ELSE /\ UNCHANGED env_content
            /\ Goto(i, "print_updated")
    /\ UNCHANGED <<fs, linesep, key_bytes, key_b64, ret, trace, fs0>>

\* lines 27-28: if placeholder in env_content: env_content = env_content.replace(...)
CheckPlaceholder(i) ==
    /\ pc[i] = "check"
    /\ IF HasPlaceholder(env_content[i])
       THEN /\ env_content' = [env_content EXCEPT ![i] = Patched(@, key_b64[i])]
            /\ Goto(i, "open_w")
       ELSE /\ UNCHANGED env_content
            /\ Goto(i, "return")
    /\ UNCHANGED <<fs, linesep, key_bytes, key_b64, ret, trace, fs0>>

\* an open for update ('r+'), which leaves the content in place
OpenWriteNoTruncate(i) ==
    /\ pc[i] = "open_w"
    /\ Log(i, Ev("open_w", <<>>))
    /\ Goto(i, "write")
    /\ UNCHANGED <<fs, linesep, key_bytes, key_b64, env_content, ret, fs0>>

\* line 30: with open(env_path, 'w') as file  -- the file is truncated (or created)
OpenWrite(i) ==
    /\ pc[i] = "open_w"
    /\ fs' = [p \in DOMAIN fs \cup {EnvPath} |-> IF p = EnvPath THEN <<>> ELSE fs[p]]
    /\ Log(i, Ev("open_w", <<>>))
    /\ Goto(i, "write")
    /\ UNCHANGED <<linesep, key_bytes, key_b64, env_content, ret, fs0>>

\* line 30 raising: the file is not touched
OpenWriteFails(i) ==
    /\ pc[i] = "open_w"
    /\ Log(i, Ev("error", <<"open_w">>))
    /\ Goto(i, "raised")
    /\ UNCHANGED <<fs, linesep, key_bytes, key_b64, env_content, ret, fs0>>

\* what line 31 puts into the file
Data(i) == WriteText(env_content[i], linesep)

\* the file system once n characters of data are written at the start of .env
Written(data, n) ==
    [p \in DOMAIN fs \cup {EnvPath} |->
        IF p = EnvPath
        THEN WriteAt(IF Exists THEN fs[EnvPath] ELSE <<>>, 0, Prefix(data, n))
        ELSE fs[p]]

\* line 31: file.write(env_content), and the with block closes the file
WriteEnv(i) ==
    /\ pc[i] = "write"
    /\ LET data == Data(i)
       IN  /\ fs' = Written(data, Len(data))
           /\ Log(i, Ev("write", data))
    /\ Goto(i, "print_updated")
    /\ UNCHANGED <<linesep, key_bytes, key_b64, env_content, ret, fs0>>

\* line 31 raising (OSError) after some of the text, not all, reached the file
WriteFails(i) ==
    /\ pc[i] = "write"
    /\ LET data == Data(i)
       IN  \E n \in 0..(Len(data) - 1) : fs' = Written(data, n)
    /\ Log(i, Ev("error", <<"write">>))
    /\ Goto(i, "raised")
    /\ UNCHANGED <<linesep, key_bytes, key_b64, env_content, ret, fs0>>

\* the process dies between line 30 and the end of line 31, with some of the
\* text, not all, in the file
Crash(i) ==
    /\ pc[i] = "write"
    /\ LET data == Data(i)
       IN  \E n \in 0..(Len(data) - 1) : fs' = Written(data, n)
    /\ Goto(i, "crashed")
    /\ UNCHANGED <<linesep, key_bytes, key_b64, env_content, ret, trace, fs0>>

\* line 32: print("Updated .env file with the new encryption key")
PrintUpdated(i) ==
    /\ pc[i] = "print_updated"
    /\ Log(i, Ev("print_updated", <<>>))
    /\ Goto(i, "return")
    /\ UNCHANGED <<fs, linesep, key_bytes, key_b64, env_content, ret, fs0>>

\* line 34: return key_b64
Return(i) ==
    /\ pc[i] = "return"
    /\ ret' = [ret EXCEPT ![i] = key_b64[i]]
    /\ Goto(i, "done")
    /\ UNCHANGED <<fs, linesep, key_bytes, key_b64, env_content, trace, fs0>>

\* one step of invocation i after its call
Step(i) ==
    \/ PrintKey(i)
    \/ PrintAdvice(i)
    \/ PathExists(i)
    \/ ReadEnv(i)
    \/ CheckPlaceholder(i)
    \/ OpenWrite(i)
    \/ WriteEnv(i)
    \/ PrintUpdated(i)
    \/ Return(i)

\* one failing step of invocation i
Fault(i) ==
    \/ ReadFails(i)
    \/ OpenWriteFails(i)
    \/ WriteFails(i)
    \/ Crash(i)

----------------------------------------------------------------------------
(* One invocation, on any initial .env, with failures *)

Next ==
    \/ \E L \in Lengths : \E bs \in TokenBytes(NarrowPool, L) : Call(1, L, bs)
    \/ Step(1)
    \/ Fault(1)

Spec == Init /\ [][Next]_vars

----------------------------------------------------------------------------
(* One invocation, its key drawn from the wide pool *)

InitKey ==
    /\ fs \in {NoFiles, OneFile(Placeholder), OneFile(<<"#">>)}
    /\ linesep \in LineSeps
    /\ IdleState

NextKey ==
    \/ \E L \in Lengths : \E bs \in TokenBytes(WidePool, L) : Call(1, L, bs)
    \/ Step(1)

SpecKey == InitKey /\ [][NextKey]_vars

----------------------------------------------------------------------------
(* Invocations one after the other: the next is called when the last returned *)

\* the key lengths of the invocations that follow or overlap each other
FewLengths == {1, 3}

InitSeq ==
    /\ fs \in {NoFiles} \cup { OneFile(c) : c \in
                 { Placeholder \o <<LF>>,
                   Placeholder \o Drop(Placeholder, 1),
                   <<"#">> \o Placeholder \o <<CR, LF>> \o Placeholder,
                   <<"A", "=", "1", LF>> } }
    /\ linesep \in LineSeps
    /\ IdleState

NextSeq ==
    \E i \in Invs :
        \/ /\ \A j \in 1..(i - 1) : pc[j] = "done"
           /\ \E L \in FewLengths : \E bs \in TokenBytes(NarrowPool, L) : Call(i, L, bs)
        \/ Step(i)

SpecSeq == InitSeq /\ [][NextSeq]_vars

----------------------------------------------------------------------------
(* Two invocations side by side *)

InitConc ==
    /\ fs \in { OneFile(c) : c \in { Placeholder \o <<LF>>, <<"#">> \o Placeholder } }
    /\ linesep \in LineSeps
    /\ IdleState

NextConc ==
    \E i \in Procs :
        \/ \E L \in {1, DefaultLength} : \E bs \in TokenBytes(NarrowPool, L) : Call(i, L, bs)
        \/ Step(i)

SpecConc == InitConc /\ [][NextConc]_vars

----------------------------------------------------------------------------
(* What the properties speak of *)

Tags(t) == [j \in 1..Len(t) |-> t[j][1]]

\* the lines invocation i has printed, in order
IsPrint(e) == e[1] \in {"print_key", "print_advice", "print_updated"}
Printed(t) == SelectSeq(t, IsPrint)

\* the accesses to .env invocation i has made, in order
IsAccess(e) == e[1] \in {"exists", "read", "open_w", "write"}
Accesses(t) == SelectSeq(t, IsAccess)

Has(t, tag) == \E j \in 1..Len(t) : t[j][1] = tag

Called(i) == pc[i] /= "idle"
Returned(i) == pc[i] = "done"

\* .env as invocation i found it when it was called
HadEnv(i) == EnvPath \in DOMAIN fs0[i]
Original(i) == fs0[i][EnvPath]

\* what the event of a kind carried: the raw text read, the text written
Payload(t, tag) == t[CHOOSE j \in 1..Len(t) : t[j][1] = tag][2]
Count(t, tag) == Cardinality({ j \in 1..Len(t) : t[j][1] = tag })

Wrote(i) == Has(trace[i], "write")
Rewrote(i) == Has(trace[i], "open_w") \/ Has(trace[i], "write")
Confirmed(i) == Has(trace[i], "print_updated")

IsPrefixOf(a, b) == Len(a) <= Len(b) /\ a = Prefix(b, Len(a))

\* the value of a base64 character (0 for the padding character)
Value(c) == IF c = Pad THEN 0 ELSE (CHOOSE n \in 0..63 : Alphabet[n + 1] = c)

\* the bytes of one group of four characters
DecodeGroup(g) ==
    LET v == Value(g[1]) * 262144 + Value(g[2]) * 4096 + Value(g[3]) * 64 + Value(g[4])
        b == << v \div 65536, (v \div 256) % 256, v % 256 >>
    IN  IF g[3] = Pad THEN Prefix(b, 1)
        ELSE IF g[4] = Pad THEN Prefix(b, 2)
        ELSE b

\* base64.b64decode(text), the decoder a reader of the key applies
RECURSIVE B64Decode(_)
B64Decode(text) ==
    IF Len(text) < 4 THEN <<>>
    ELSE DecodeGroup(Prefix(text, 4)) \o B64Decode(Drop(text, 4))

\* the number of '=' that end the base64 text of L bytes
PadCount(L) == (3 - (L % 3)) % 3

----------------------------------------------------------------------------
(* C1 *)

\* C1, as stated: a call made while .env holds the placeholder returns a key K
\* such that the file contains 'ENCRYPTION_KEY=' followed by K and no
\* occurrence of the placeholder, not even one formed across the boundary of a
\* replacement.
C1_NoPlaceholderLeft ==
    \A i \in Invs :
        (Returned(i) /\ HadEnv(i) /\ Contains(Original(i), Placeholder)) =>
            /\ Contains(fs[EnvPath], KeyLine(ret[i]))
            /\ ~Contains(fs[EnvPath], Placeholder)

\* C1, amended: a call made while .env holds the placeholder returns a key K
\* such that the file contains 'ENCRYPTION_KEY=' followed by K; and when the
\* key length is not a multiple of 3 (K ends in '='), the file contains no
\* occurrence of the placeholder.
C1_NoPlaceholderLeftWhenPadded ==
    \A i \in Invs :
        (Returned(i) /\ HadEnv(i) /\ Contains(Original(i), Placeholder)) =>
            /\ Contains(fs[EnvPath], KeyLine(ret[i]))
            /\ (Len(key_bytes[i]) % 3 /= 0 => ~Contains(fs[EnvPath], Placeholder))

\* a call of the default length has patched a .env that held the placeholder twice
C1_Witness ==
    /\ Returned(1) /\ HadEnv(1)
    /\ Original(1) = Placeholder \o Placeholder
    /\ Len(key_bytes[1]) = DefaultLength
    /\ Wrote(1)
    /\ ~Contains(fs[EnvPath], Placeholder)

----------------------------------------------------------------------------
(* C2 *)

\* C2: a call made while .env exists without the placeholder never opens the
\* file for writing, leaves its content byte for byte as it was, and does not
\* print the confirmation.
C2_UntouchedWithoutPlaceholder ==
    \A i \in Invs :
        (Called(i) /\ HadEnv(i) /\ ~Contains(Original(i), Placeholder)) =>
            /\ fs = fs0[i]
            /\ ~Rewrote(i)
            /\ ~Confirmed(i)

\* a call has read a non-empty .env without the placeholder, and returned
C2_Witness ==
    /\ Returned(1) /\ HadEnv(1)
    /\ Original(1) = Drop(Placeholder, 1) \o <<CR, LF>>
    /\ Has(trace[1], "read")
    /\ fs[EnvPath] = Original(1)

----------------------------------------------------------------------------
(* C3 *)

\* C3: a call made while .env does not exist returns the generated key, reads
\* and writes no file, and .env still does not exist afterwards.
C3_SkippedWithoutFile ==
    \A i \in Invs :
        (Called(i) /\ ~HadEnv(i)) =>
            /\ fs = fs0[i]
            /\ ~Exists
            /\ pc[i] \in {"print_key", "print_advice", "exists", "return", "done"}
            /\ \A j \in 1..Len(trace[i]) :
                   trace[i][j][1] \in {"print_key", "print_advice", "exists"}
            /\ Returned(i) => (ret[i] = key_b64[i] /\ ret[i] = B64Encode(key_bytes[i]))

\* a call has returned its key with no .env around
C3_Witness ==
    /\ Returned(1) /\ ~HadEnv(1)
    /\ ret[1] /= <<>>
    /\ Accesses(trace[1]) = <<Ev("exists", <<>>)>>

----------------------------------------------------------------------------
(* C4 *)

\* C4: the key of L >= 1 bytes is the padded base64 text of those bytes: it
\* decodes to exactly those bytes, is 4 * ceil(L / 3) characters of the base64
\* alphabet with the padding at the end only, and for L = 32 is 44 characters
\* ending in exactly one '='; it is the value returned.
C4_Base64OfTheBytes ==
    \A i \in Invs :
        Called(i) =>
            LET L == Len(key_bytes[i])
                K == key_b64[i]
            IN  /\ L >= 1
                /\ B64Decode(K) = key_bytes[i]
                /\ Len(K) = 4 * ((L + 2) \div 3)
                /\ \A j \in 1..Len(K) :
                       /\ K[j] \in {Alphabet[n] : n \in 1..64} \cup {Pad}
                       /\ (K[j] = Pad) <=> (j > Len(K) - PadCount(L))
                /\ (L = 32) => (Len(K) = 44 /\ K[44] = Pad /\ K[43] /= Pad)
                /\ Returned(i) => ret[i] = K

\* a call has returned the 44 characters of 32 bytes that are not all zero
C4_Witness ==
    /\ Returned(1)
    /\ Len(key_bytes[1]) = 32
    /\ key_bytes[1][32] = 255
    /\ Len(ret[1]) = 44

----------------------------------------------------------------------------
(* C5 *)

\* C5, as stated: the content written back is the original content of .env
\* with every occurrence of the placeholder replaced by 'ENCRYPTION_KEY=<key>'
\* and every character outside the occurrences kept in place.
C5_OnlyOccurrencesChange ==
    \A i \in Invs :
        Wrote(i) =>
            Payload(trace[i], "write") =
                Replace(Payload(trace[i], "read"), Placeholder, KeyLine(key_b64[i]))

----------------------------------------------------------------------------
(* C6 *)

\* C6: a call that returns has printed the key line, carrying the key it
\* returns, and then the advisory line, each once and both before any access
\* to .env; it has printed the confirmation if and only if it rewrote .env, and
\* then once, right after the write of the new content.
C6_OutputOrder ==
    \A i \in Invs :
        Returned(i) =>
            LET t == trace[i]
                n == Len(t)
            IN  /\ n >= 3
                /\ t[1] = Ev("print_key", ret[i])
                /\ t[2] = Ev("print_advice", <<>>)
                /\ t[3][1] = "exists"
                /\ Count(t, "print_key") = 1
                /\ Count(t, "print_advice") = 1
                /\ Confirmed(i) <=> Rewrote(i)
                /\ Confirmed(i) =>
                       /\ Count(t, "print_updated") = 1
                       /\ t[n][1] = "print_updated"
                       /\ t[n - 1][1] = "write"
                       /\ t[n - 2][1] = "open_w"

\* a call has returned after rewriting .env, three lines printed
C6_Witness ==
    /\ Returned(1)
    /\ Len(Printed(trace[1])) = 3
    /\ Tags(trace[1]) =
           <<"print_key", "print_advice", "exists", "read", "open_w", "write", "print_updated">>

----------------------------------------------------------------------------
(* C7 *)

\* C7: once reading, opening or writing .env has failed, the call is over with
\* the error: it returns nothing, it has printed the key line and the advisory
\* line and no confirmation, nothing follows the error, and when the failure is
\* on the read or on the open for writing the file is as it was.
C7_ErrorsPropagate ==
    \A i \in Invs :
        /\ (pc[i] = "raised") <=> Has(trace[i], "error")
        /\ pc[i] = "raised" =>
               LET t == trace[i]
                   e == t[Len(t)]
               IN  /\ e[1] = "error"
                   /\ Count(t, "error") = 1
                   /\ ret[i] = <<>>
                   /\ Printed(t) = <<Ev("print_key", key_b64[i]), Ev("print_advice", <<>>)>>
                   /\ ~ENABLED (Step(i) \/ Fault(i))
                   /\ e[2] \in {<<"read">>, <<"open_w">>} => fs = fs0[i]

\* the open for writing has failed on a .env holding the placeholder
C7_Witness ==
    /\ pc[1] = "raised"
    /\ trace[1][Len(trace[1])] = Ev("error", <<"open_w">>)
    /\ Contains(fs[EnvPath], Placeholder)
    /\ Len(Printed(trace[1])) = 2

----------------------------------------------------------------------------
(* C8 *)

\* C8: from the open for writing until the write completes, and for good if
\* the process dies in between, .env holds a strict prefix of the new content
\* (empty after the open), which is neither the original nor the patched
\* content, and no other file exists that holds the original.
C8_TruncatedInPlace ==
    \A i \in Invs :
        pc[i] \in {"write", "crashed"} =>
            LET cur == fs[EnvPath]
                new == Data(i)
            IN  /\ DOMAIN fs = {EnvPath}
                /\ IsPrefixOf(cur, new)
                /\ pc[i] = "write" => cur = <<>>
                /\ cur /= new
                /\ cur /= Original(i)
                /\ Contains(Original(i), Placeholder)

\* the process has died with part of the new content, and nothing else, on disk
C8_Witness ==
    /\ pc[1] = "crashed"
    /\ fs[EnvPath] = KeyPrefix
    /\ Original(1) = Placeholder \o <<LF>>
    /\ DOMAIN fs = {EnvPath}

----------------------------------------------------------------------------
(* C9 *)

\* the other of the two invocations
Other(i) == CHOOSE j \in Procs : j /= i

\* C9: nothing makes one invocation wait for the other: whatever the other is
\* doing, the read, the open for writing and the write can be taken; and when
\* both have rewritten .env and returned, both have read the placeholder and
\* printed the confirmation, and the file starts with the text of one of them
\* (the last to write), followed at most by the end of the other's.
C9_NoLockLastWriterWins ==
    \A i \in Procs :
        /\ pc[i] = "read" => ENABLED ReadEnv(i)
        /\ pc[i] = "open_w" => ENABLED OpenWrite(i)
        /\ pc[i] = "write" => ENABLED WriteEnv(i)
        /\ (Returned(1) /\ Returned(2) /\ Wrote(1) /\ Wrote(2)) =>
               /\ Contains(Payload(trace[i], "read"), Placeholder)
               /\ Confirmed(i)
               /\ \E w \in Procs :
                      LET mine == Payload(trace[w], "write")
                          theirs == Payload(trace[Other(w)], "write")
                      IN  fs[EnvPath] \in {mine, WriteAt(theirs, 0, mine)}

\* both have read the placeholder, written and confirmed; the file is the
\* second's, and the key the first returned is nowhere in it
C9_Witness ==
    /\ Returned(1) /\ Returned(2)
    /\ Contains(Payload(trace[1], "read"), Placeholder)
    /\ Contains(Payload(trace[2], "read"), Placeholder)
    /\ Wrote(1) /\ Wrote(2)
    /\ Confirmed(1) /\ Confirmed(2)
    /\ fs[EnvPath] = Payload(trace[2], "write")
    /\ ret[1] /= ret[2]
    /\ ~Contains(fs[EnvPath], ret[1])

----------------------------------------------------------------------------
(* C10 *)

\* C10, as stated: of invocations that follow each other, at most one writes
\* the file; every invocation after it leaves the file unchanged, prints no
\* confirmation and returns a key that is not the one stored in the file.
C10_OneWriterOtherKeys ==
    \A i, j \in Invs :
        (i < j /\ Wrote(i) /\ Returned(j)) =>
            /\ ~Rewrote(j)
            /\ fs = fs0[j]
            /\ ~Confirmed(j)
            /\ ~Contains(fs[EnvPath], KeyLine(ret[j]))

\* C10, amended: once an invocation whose key length is not a multiple of 3
\* has written the file, every invocation after it leaves the file unchanged,
\* still holding what that one wrote, and prints no confirmation; the key it
\* returns is the stored one only if it drew the same bytes.
C10_OneWriterWhenPadded ==
    \A i, j \in Invs :
        (i < j /\ Wrote(i) /\ Len(key_bytes[i]) % 3 /= 0 /\ Called(j)) =>
            /\ ~Rewrote(j)
            /\ fs = fs0[j]
            /\ fs[EnvPath] = Payload(trace[i], "write")
            /\ ~Confirmed(j)
            /\ Returned(j) => ((ret[j] = ret[i]) <=> (key_bytes[j] = key_bytes[i]))

\* the first invocation patched the file, the second returned another key
C10_Witness ==
    /\ Returned(1) /\ Returned(2)
    /\ Wrote(1) /\ Len(key_bytes[1]) = 1
    /\ ret[2] /= ret[1]
    /\ fs = fs0[2]
    /\ Contains(fs[EnvPath], KeyLine(ret[1]))

====
